---- MODULE Spec2Model ----
(***************************************************************************)
(* The QR code generator of src/src/App.tsx as a state machine.            *)
(*                                                                         *)
(* State: the three pieces of React state of App (text, copied, options),  *)
(* the canvas committed under qrRef, the clipboard copies in flight, the   *)
(* pending setTimeout callbacks, and what the latest handler emitted       *)
(* (toasts, file saved, clipboard payload).  One action per event handler  *)
(* or asynchronous continuation; every action of a handler that sets React *)
(* state includes the re-render React commits before the next event.       *)
(***************************************************************************)
EXTENDS Integers, Sequences, FiniteSets, Bags, TLC

(***************************************************************************)
(* Bounds of the model.                                                    *)
(***************************************************************************)
\* longest text typed into the textarea
MaxTextLen == 2
\* clipboard copies in flight at once
MaxInFlight == 1
\* copies in flight plus pending "copied" timers
MaxTimers == 2
\* updateOption calls issued within one React batch
MaxBatch == 2

(***************************************************************************)
(* Program constants.                                                      *)
(***************************************************************************)
\* setTimeout(() => setCopied(false), 2000)
copiedMs == 2000
\* <input type="range" min="200" max="500" step="10">
sliderMin == 200
sliderMax == 500
sliderStep == 10

\* the <option value=...> elements of the level <select>
levelOptions == {"L", "M", "Q", "H"}

\* presetStyles (the icon glyphs are presentation only and are left out)
presetStyles ==
  << [name |-> "Classic", bgColor |-> "#FFFFFF", fgColor |-> "#000000", color |-> "white"],
     [name |-> "Ocean",   bgColor |-> "#E0F2FE", fgColor |-> "#0C4A6E", color |-> "white"],
     [name |-> "Forest",  bgColor |-> "#D1FAE5", fgColor |-> "#064E3B", color |-> "white"],
     [name |-> "Sunset",  bgColor |-> "#FEE2E2", fgColor |-> "#7F1D1D", color |-> "white"],
     [name |-> "Night",   bgColor |-> "#1E293B", fgColor |-> "#E2E8F0", color |-> "black"],
     [name |-> "Purple",  bgColor |-> "#EDE9FE", fgColor |-> "#4C1D95", color |-> "white"] >>

\* useState<QRCodeOptions>({...}): the options App starts with
initialOptions ==
  [size |-> 300, level |-> "M", bgColor |-> "#FFFFFF", fgColor |-> "#000000",
   includeMargin |-> TRUE, marginSize |-> 4]

\* a plausible slip in resetOptions: one field of the literal differs
resetValueMutant ==
  [size |-> 300, level |-> "L", bgColor |-> "#FFFFFF", fgColor |-> "#000000",
   includeMargin |-> TRUE, marginSize |-> 4]

\* the literal resetOptions passes to setOptions
resetValue ==
  [size |-> 300, level |-> "M", bgColor |-> "#FFFFFF", fgColor |-> "#000000",
   includeMargin |-> TRUE, marginSize |-> 4]

(***************************************************************************)
(* Notifications (react-hot-toast).                                        *)
(***************************************************************************)
toastSuccess(message) == [kind |-> "success", message |-> message]
toastError(message) == [kind |-> "error", message |-> message]

(***************************************************************************)
(* Absent values.  A value that may be absent is a sequence of length 0    *)
(* or 1, so that present and absent values compare.                        *)
(***************************************************************************)
NoCanvas == <<>>
NoFile == <<>>
NoBlob == <<>>
NoJob == <<>>

(***************************************************************************)
(* The range input.  The browser keeps the value of <input type="range">   *)
(* within [min, max] and on a step; e.target.value is its decimal string   *)
(* and the handler parses it with parseInt.                                *)
(***************************************************************************)
DigitChars == <<"0", "1", "2", "3", "4", "5", "6", "7", "8", "9">>

RECURSIVE numberToString(_)
numberToString(n) ==
  IF n < 10 THEN <<DigitChars[n + 1]>>
  ELSE Append(numberToString(n \div 10), DigitChars[(n % 10) + 1])

IsDigit(c) == \E d \in 1..10 : DigitChars[d] = c
DigitValue(c) == (CHOOSE d \in 1..10 : DigitChars[d] = c) - 1

\* parseInt(s): the leading decimal digits of s; NaN (here <<>>) when there are none
RECURSIVE parseIntAcc(_, _)
parseIntAcc(s, acc) ==
  IF s = <<>> \/ ~IsDigit(Head(s)) THEN acc
  ELSE parseIntAcc(Tail(s), acc * 10 + DigitValue(Head(s)))
parseInt(s) == IF s = <<>> \/ ~IsDigit(Head(s)) THEN <<>> ELSE <<parseIntAcc(s, 0)>>

\* a slip in the markup: the slider carries no max attribute
rangeInputValueMutant(raw) ==
  LET clamped == IF raw < sliderMin THEN sliderMin ELSE raw
      steps == ((clamped - sliderMin) * 2 + sliderStep) \div (2 * sliderStep)
  IN numberToString(sliderMin + steps * sliderStep)

\* the value the slider takes when the user asks for position raw
rangeInputValue(raw) ==
  LET clamped == IF raw < sliderMin THEN sliderMin
                 ELSE IF raw > sliderMax THEN sliderMax ELSE raw
      steps == ((clamped - sliderMin) * 2 + sliderStep) \div (2 * sliderStep)
      snapped == sliderMin + steps * sliderStep
  IN numberToString(IF snapped > sliderMax THEN snapped - sliderStep ELSE snapped)

(***************************************************************************)
(* The configuration store: the updater functions handed to setOptions.    *)
(***************************************************************************)
\* a stale-closure slip: spreads the rendered options instead of prev
updateOptionUpdaterMutant(prev, rendered, key, value) == [rendered EXCEPT ![key] = value]

\* prev => ({ ...prev, [key]: value }); rendered is the options the handler closed over
updateOptionUpdater(prev, rendered, key, value) == [prev EXCEPT ![key] = value]

\* React applies the updaters queued during one event in order, each to the
\* result of the one before
RECURSIVE flushUpdates(_, _, _)
flushUpdates(prev, rendered, kvs) ==
  IF kvs = <<>> THEN prev
  ELSE flushUpdates(updateOptionUpdater(prev, rendered, Head(kvs)[1], Head(kvs)[2]),
                    rendered, Tail(kvs))

\* a slip in applyPreset: the two colors land in each other's field
applyPresetUpdaterMutant(prev, preset) ==
  [prev EXCEPT !.bgColor = preset.fgColor, !.fgColor = preset.bgColor]

\* prev => ({ ...prev, bgColor: preset.bgColor, fgColor: preset.fgColor })
applyPresetUpdater(prev, preset) ==
  [prev EXCEPT !.bgColor = preset.bgColor, !.fgColor = preset.fgColor]

(***************************************************************************)
(* Rendering.  QRCodeCanvas belongs to qrcode.react, outside this          *)
(* repository: it draws the value it is given or, when the value does not  *)
(* fit a QR symbol at the requested level, raises an error.  The symbol    *)
(* capacity is scaled down to a few characters per level (it shrinks as    *)
(* the level rises) so that both cases occur within MaxTextLen.            *)
(***************************************************************************)
qrCapacity == [L |-> 4, M |-> 3, Q |-> 2, H |-> 1]
canEncode(value, level) == Len(value) <= qrCapacity[level]

\* <QRCodeCanvas value size level bgColor fgColor includeMargin />
QRCodeCanvas(value, size, level, bgColor, fgColor, includeMargin) ==
  [value |-> value, size |-> size, level |-> level, bgColor |-> bgColor,
   fgColor |-> fgColor, includeMargin |-> includeMargin]

\* {text ? <div ref={qrRef}><QRCodeCanvas .../></div> : <placeholder/>}:
\* what React commits for text t and options o.  App has no error boundary,
\* so an error raised while rendering unmounts the whole tree.
render(t, o) ==
  IF t = "" THEN [threw |-> FALSE, canvas |-> NoCanvas]
  ELSE IF canEncode(t, o.level)
       THEN [threw |-> FALSE,
             canvas |-> <<QRCodeCanvas(t, o.size, o.level, o.bgColor, o.fgColor,
                                       o.includeMargin)>>]
       ELSE [threw |-> TRUE, canvas |-> NoCanvas]

(***************************************************************************)
(* Export actions.                                                         *)
(***************************************************************************)
\* canvas.toDataURL('image/png')
toDataURL(surface) == [type |-> "image/png", image |-> surface]

\* a slip in downloadQRCode: the missing-canvas guard is left out, so
\* canvas.toDataURL is called on undefined and the handler throws
downloadQRCodeResultMutant(cv) ==
  IF cv = NoCanvas
  THEN [toasts |-> <<>>, saved |-> NoFile, thrown |-> TRUE]
  ELSE [toasts |-> <<toastSuccess("QR Code downloaded!")>>,
        saved |-> <<[download |-> "qrcode.png", href |-> toDataURL(cv[1])]>>,
        thrown |-> FALSE]

\* downloadQRCode, given the canvas found under qrRef
downloadQRCodeResult(cv) ==
  IF cv = NoCanvas
  THEN [toasts |-> <<toastError("No QR code to download")>>, saved |-> NoFile,
        thrown |-> FALSE]
  ELSE [toasts |-> <<toastSuccess("QR Code downloaded!")>>,
        saved |-> <<[download |-> "qrcode.png", href |-> toDataURL(cv[1])]>>,
        thrown |-> FALSE]

\* canvas.toBlob(callback, 'image/png'): the bitmap is copied when toBlob is
\* called; the callback later receives the PNG of that copy, whatever the
\* canvas (atCallback) shows by then
toBlobMutant(atCall, atCallback) ==
  [type |-> "image/png", image |-> IF atCallback = NoCanvas THEN atCall ELSE atCallback[1]]
toBlob(atCall, atCallback) == [type |-> "image/png", image |-> atCall]

\* copyToClipboard up to its first await, given the canvas found under qrRef
copyToClipboardStart(cv) ==
  IF cv = NoCanvas
  THEN [toasts |-> <<toastError("No QR code to copy")>>, started |-> NoJob]
  ELSE [toasts |-> <<>>,
        started |-> <<[stage |-> "toBlob", bitmap |-> cv[1], blob |-> NoBlob]>>]

\* the statements after the awaited clipboard write: setCopied(true),
\* toast.success, setTimeout(..., 2000)
copyToClipboardThen(cp, tm) ==
  [copied |-> TRUE, timers |-> Append(tm, copiedMs),
   toasts |-> <<toastSuccess("Copied to clipboard!")>>, thrown |-> FALSE]

\* a slip in copyToClipboard: setCopied and the timer sit outside the try
copyToClipboardCatchMutant(cp, tm) ==
  [copied |-> TRUE, timers |-> Append(tm, copiedMs),
   toasts |-> <<toastError("Copy not supported in this browser")>>, thrown |-> FALSE]

\* the catch block: console.error, toast.error
copyToClipboardCatch(cp, tm) ==
  [copied |-> cp, timers |-> tm,
   toasts |-> <<toastError("Copy not supported in this browser")>>, thrown |-> FALSE]

(***************************************************************************)
(* State.                                                                  *)
(***************************************************************************)
VARIABLES
  text,       \* useState<string>('')
  copied,     \* useState<boolean>(false)
  options,    \* useState<QRCodeOptions>({...})
  canvas,     \* qrRef.current?.querySelector('canvas'): NoCanvas or <<surface>>
  crashed,    \* an error escaped rendering and React unmounted App
  jobs,       \* bag of copyToClipboard calls suspended at an await
  timers,     \* milliseconds left of each pending setTimeout, oldest first
  sinceCopy,  \* <<>> or <<ms since the latest successful copy>>, up to copiedMs
  toasts,     \* the notifications the latest step emitted
  saved,      \* the file the latest step saved, or NoFile
  written,    \* the blob the latest step put on the clipboard, or NoBlob
  thrown,     \* a handler let an exception escape to its caller
  last        \* the handler or continuation that ran latest

vars == <<text, copied, options, canvas, crashed, jobs, timers, sinceCopy,
          toasts, saved, written, thrown, last>>

Init ==
  /\ text = ""
  /\ copied = FALSE
  /\ options = initialOptions
  /\ canvas = render("", initialOptions).canvas
  /\ crashed = FALSE
  /\ jobs = EmptyBag
  /\ timers = <<>>
  /\ sinceCopy = <<>>
  /\ toasts = <<>>
  /\ saved = NoFile
  /\ written = NoBlob
  /\ thrown = FALSE
  /\ last = "init"

\* React re-renders App with text t and options o and commits the result
Rerender(t, o) ==
  /\ canvas' = render(t, o).canvas
  /\ crashed' = render(t, o).threw

\* what a step that saves no file and writes no clipboard leaves behind
NoExport == saved' = NoFile /\ written' = NoBlob

(***************************************************************************)
(* Event handlers.  No control is left once App is unmounted.              *)
(***************************************************************************)
\* handleTextChange: setText(e.target.value)
handleTextChange(value) ==
  /\ ~crashed
  /\ text' = value
  /\ Rerender(value, options)
  /\ toasts' = <<>>
  /\ NoExport
  /\ last' = "handleTextChange"
  /\ UNCHANGED <<copied, options, jobs, timers, sinceCopy, thrown>>

\* updateOption(key, value), called once per element of kvs within one event
updateOption(kvs) ==
  /\ ~crashed
  /\ kvs # <<>>
  /\ options' = flushUpdates(options, options, kvs)
  /\ Rerender(text, options')
  /\ toasts' = <<>>
  /\ NoExport
  /\ last' = "updateOption"
  /\ UNCHANGED <<text, copied, jobs, timers, sinceCopy, thrown>>

\* applyPreset(preset)
applyPreset(preset) ==
  /\ ~crashed
  /\ options' = applyPresetUpdater(options, preset)
  /\ Rerender(text, options')
  /\ toasts' = <<toastSuccess("Applied " \o preset.name \o " style!")>>
  /\ NoExport
  /\ last' = "applyPreset"
  /\ UNCHANGED <<text, copied, jobs, timers, sinceCopy, thrown>>

\* resetOptions
resetOptions ==
  /\ ~crashed
  /\ options' = resetValue
  /\ text' = ""
  /\ Rerender(text', options')
  /\ toasts' = <<toastSuccess("Reset to defaults")>>
  /\ NoExport
  /\ last' = "resetOptions"
  /\ UNCHANGED <<copied, jobs, timers, sinceCopy, thrown>>

\* downloadQRCode
downloadQRCode ==
  /\ ~crashed
  /\ toasts' = downloadQRCodeResult(canvas).toasts
  /\ saved' = downloadQRCodeResult(canvas).saved
  /\ thrown' = (thrown \/ downloadQRCodeResult(canvas).thrown)
  /\ written' = NoBlob
  /\ last' = "downloadQRCode"
  /\ UNCHANGED <<text, copied, options, canvas, crashed, jobs, timers, sinceCopy>>

\* copyToClipboard, from the click to the await of the toBlob promise
copyToClipboard ==
  /\ ~crashed
  /\ canvas # NoCanvas =>
       /\ BagCardinality(jobs) < MaxInFlight
       /\ BagCardinality(jobs) + Len(timers) < MaxTimers
  /\ toasts' = copyToClipboardStart(canvas).toasts
  /\ jobs' = IF copyToClipboardStart(canvas).started = NoJob THEN jobs
             ELSE jobs (+) SetToBag({copyToClipboardStart(canvas).started[1]})
  /\ NoExport
  /\ last' = "copyToClipboard"
  /\ UNCHANGED <<text, copied, options, canvas, crashed, timers, sinceCopy, thrown>>

(***************************************************************************)
(* Continuations of copyToClipboard.                                       *)
(***************************************************************************)
\* the toBlob callback resolves the promise and copyToClipboard goes on to
\* navigator.clipboard.write([new ClipboardItem(...)]): with the clipboard
\* capability present the write is pending, without it (navigator.clipboard
\* or ClipboardItem undefined) the call throws into the catch block
toBlobCallback(j, capable) ==
  /\ BagIn(j, jobs)
  /\ j.stage = "toBlob"
  /\ IF capable
     THEN /\ jobs' = (jobs (-) SetToBag({j})) (+)
                     SetToBag({[j EXCEPT !.stage = "write",
                                         !.blob = <<toBlob(j.bitmap, canvas)>>]})
          /\ toasts' = <<>>
          /\ last' = "toBlobCallback"
          /\ UNCHANGED <<copied, timers, thrown>>
     ELSE /\ jobs' = jobs (-) SetToBag({j})
          /\ copied' = copyToClipboardCatch(copied, timers).copied
          /\ timers' = copyToClipboardCatch(copied, timers).timers
          /\ toasts' = copyToClipboardCatch(copied, timers).toasts
          /\ thrown' = (thrown \/ copyToClipboardCatch(copied, timers).thrown)
          /\ last' = "copyCatch"
  /\ NoExport
  /\ UNCHANGED <<text, options, canvas, crashed, sinceCopy>>

\* the clipboard write is fulfilled
clipboardWriteFulfilled(j) ==
  /\ BagIn(j, jobs)
  /\ j.stage = "write"
  /\ jobs' = jobs (-) SetToBag({j})
  /\ written' = j.blob
  /\ saved' = NoFile
  /\ copied' = copyToClipboardThen(copied, timers).copied
  /\ timers' = copyToClipboardThen(copied, timers).timers
  /\ toasts' = copyToClipboardThen(copied, timers).toasts
  /\ thrown' = (thrown \/ copyToClipboardThen(copied, timers).thrown)
  /\ sinceCopy' = <<0>>
  /\ last' = "copyThen"
  /\ UNCHANGED <<text, options, canvas, crashed>>

\* the clipboard write is rejected (no permission, unsupported type)
clipboardWriteRejected(j) ==
  /\ BagIn(j, jobs)
  /\ j.stage = "write"
  /\ jobs' = jobs (-) SetToBag({j})
  /\ copied' = copyToClipboardCatch(copied, timers).copied
  /\ timers' = copyToClipboardCatch(copied, timers).timers
  /\ toasts' = copyToClipboardCatch(copied, timers).toasts
  /\ thrown' = (thrown \/ copyToClipboardCatch(copied, timers).thrown)
  /\ NoExport
  /\ last' = "copyCatch"
  /\ UNCHANGED <<text, options, canvas, crashed, sinceCopy>>

(***************************************************************************)
(* Time.                                                                   *)
(***************************************************************************)
\* the oldest timer is due: () => setCopied(false)
timeout ==
  /\ timers # <<>>
  /\ Head(timers) = 0
  /\ timers' = Tail(timers)
  /\ copied' = FALSE
  /\ toasts' = <<>>
  /\ NoExport
  /\ last' = "timeout"
  /\ UNCHANGED <<text, options, canvas, crashed, jobs, sinceCopy, thrown>>

\* half of the "copied" period passes; a due timer runs before more time passes
tickMs == copiedMs \div 2
tick ==
  /\ \A i \in 1..Len(timers) : timers[i] >= tickMs
  /\ timers # <<>> \/ (sinceCopy # <<>> /\ sinceCopy[1] < copiedMs)
  /\ timers' = [i \in 1..Len(timers) |-> timers[i] - tickMs]
  /\ sinceCopy' = IF sinceCopy = <<>> THEN <<>>
                  ELSE IF sinceCopy[1] + tickMs > copiedMs THEN <<copiedMs>>
                  ELSE <<sinceCopy[1] + tickMs>>
  /\ toasts' = <<>>
  /\ NoExport
  /\ last' = "tick"
  /\ UNCHANGED <<text, copied, options, canvas, crashed, jobs, thrown>>

(***************************************************************************)
(* User input.                                                             *)
(***************************************************************************)
RECURSIVE repeat(_, _)
repeat(c, n) == IF n = 0 THEN "" ELSE c \o repeat(c, n - 1)

\* what the user may type into the textarea
Texts == {repeat("q", n) : n \in 0..MaxTextLen}

\* slider positions the user may ask for, within and beyond the track
RawSizes == {sliderMin - sliderStep, sliderMin + 5 * sliderStep + 1, sliderMax + sliderStep}
\* values of the color inputs
ColorValues == {"#ff0000"}

\* one change event of each control: the updateOption call it makes
ControlEvents(o) ==
  {<< <<"size", parseInt(rangeInputValue(raw))[1]>> >> : raw \in RawSizes}
    \cup {<< <<"fgColor", c>> >> : c \in ColorValues}
    \cup {<< <<"bgColor", c>> >> : c \in ColorValues}
    \cup {<< <<"level", l>> >> : l \in levelOptions}
    \cup {<< <<"includeMargin", ~o.includeMargin>> >>}

\* several updateOption calls within one event
BatchCalls == {<<"size", sliderMin>>, <<"level", "Q">>}
RECURSIVE SeqsUpTo(_, _)
SeqsUpTo(S, n) ==
  IF n = 0 THEN {<<>>}
  ELSE SeqsUpTo(S, n - 1) \cup
       {Append(s, x) : s \in {t \in SeqsUpTo(S, n - 1) : Len(t) = n - 1}, x \in S}
Batches == {s \in SeqsUpTo(BatchCalls, MaxBatch) : Len(s) >= 2}

\* the few inputs used with the clipboard pipeline
OptionSample == {<< <<"level", "H">> >>}
PresetSample == {5}

(***************************************************************************)
(* Specifications.                                                         *)
(***************************************************************************)
\* the whole application, with a sample of the option inputs
Next ==
  \/ \E value \in Texts : handleTextChange(value)
  \/ \E kvs \in OptionSample : updateOption(kvs)
  \/ \E p \in PresetSample : applyPreset(presetStyles[p])
  \/ resetOptions
  \/ downloadQRCode
  \/ copyToClipboard
  \/ \E j \in BagToSet(jobs), capable \in BOOLEAN : toBlobCallback(j, capable)
  \/ \E j \in BagToSet(jobs) : clipboardWriteFulfilled(j)
  \/ \E j \in BagToSet(jobs) : clipboardWriteRejected(j)
  \/ timeout
  \/ tick

Spec == Init /\ [][Next]_vars

\* the form and the configuration store, with every control over its range
NextControls ==
  \/ \E value \in Texts : handleTextChange(value)
  \/ \E kvs \in ControlEvents(options) \cup Batches : updateOption(kvs)
  \/ \E p \in DOMAIN presetStyles : applyPreset(presetStyles[p])
  \/ resetOptions
  \/ downloadQRCode

SpecControls == Init /\ [][NextControls]_vars

(***************************************************************************)
(* Properties.                                                             *)
(***************************************************************************)
\* the expected value of field k after the updateOption calls kvs: the value
\* of the latest call naming k, or the old value when none names it
ExpectedField(o, kvs, k) ==
  LET named == {i \in 1..Len(kvs) : kvs[i][1] = k}
  IN IF named = {} THEN o[k]
     ELSE kvs[CHOOSE i \in named : \A n \in named : n <= i][2]

\* C1: applyPreset(preset) sets bgColor and fgColor to the preset's two
\* colors and leaves size, level, includeMargin, marginSize and the text as
\* they were, for every preset of the catalog in every reachable configuration.
C1_ApplyPresetFrame ==
  [][\A p \in DOMAIN presetStyles :
       (last' = "applyPreset" /\ applyPreset(presetStyles[p])) =>
         /\ options'.bgColor = presetStyles[p].bgColor
         /\ options'.fgColor = presetStyles[p].fgColor
         /\ options'.size = options.size
         /\ options'.level = options.level
         /\ options'.includeMargin = options.includeMargin
         /\ options'.marginSize = options.marginSize
         /\ text' = text]_vars

C1_Witness ==
  /\ last = "applyPreset"
  /\ options.bgColor = "#1E293B"
  /\ options.fgColor = "#E2E8F0"
  /\ options.size = 500
  /\ options.level = "Q"
  /\ ~options.includeMargin
  /\ text = "q"

\* C2: whatever came before, after resetOptions the configuration is the
\* fixed default (size 300, level M, background #FFFFFF, foreground #000000,
\* includeMargin true, marginSize 4) and the text is empty.
C2_ResetYieldsDefault ==
  last = "resetOptions" =>
    /\ options = [size |-> 300, level |-> "M", bgColor |-> "#FFFFFF",
                  fgColor |-> "#000000", includeMargin |-> TRUE, marginSize |-> 4]
    /\ text = ""

\* a reset after a copy succeeded and while another copy, started from a
\* non-default configuration, is still in flight
C2_Witness ==
  /\ last = "resetOptions"
  /\ copied
  /\ \E j \in BagToSet(jobs) : j.bitmap.level = "H" /\ j.bitmap.bgColor = "#1E293B"

\* the step set each field named in kvs, left every other field alone, and
\* left the text alone
UpdatedAsCalled(kvs) ==
  /\ \A k \in DOMAIN options : options'[k] = ExpectedField(options, kvs, k)
  /\ DOMAIN options' = DOMAIN options
  /\ text' = text

\* C3: updateOption(k, v) sets field k to v and leaves every other field and
\* the text unchanged, also for several calls made before one re-render (each
\* call then sets its own field, the latest call winning on a repeated key).
C3_UpdateOptionFrame ==
  [][last' = "updateOption" =>
       /\ \A kvs \in ControlEvents(options) :
            updateOption(kvs) => UpdatedAsCalled(kvs)
       /\ \A kvs \in Batches :
            updateOption(kvs) => UpdatedAsCalled(kvs)]_vars

C3_Witness ==
  /\ last = "updateOption"
  /\ options.size = 200
  /\ options.level = "Q"
  /\ options.fgColor = "#ff0000"
  /\ options.bgColor = "#EDE9FE"
  /\ text = "qq"

\* C4: with empty text, downloadQRCode and copyToClipboard each report one
\* error notification (nothing to download / nothing to copy), save no file,
\* start no clipboard write, throw nothing, and leave options and text alone.
C4_MissingSurface ==
  [][/\ (text = "" /\ downloadQRCode) =>
          /\ toasts' = <<toastError("No QR code to download")>>
          /\ saved' = NoFile /\ written' = NoBlob /\ jobs' = jobs
          /\ ~thrown'
          /\ options' = options /\ text' = text
     /\ (text = "" /\ copyToClipboard) =>
          /\ toasts' = <<toastError("No QR code to copy")>>
          /\ saved' = NoFile /\ written' = NoBlob /\ jobs' = jobs
          /\ ~thrown'
          /\ options' = options /\ text' = text]_vars

C4_Witness ==
  /\ last = "copyToClipboard"
  /\ text = ""
  /\ toasts = <<toastError("No QR code to copy")>>
  /\ options.level = "H"
  /\ jobs = EmptyBag

\* C5: after a successful copy the "copied" indicator is true at once and
\* until the fixed duration (2000 ms) has elapsed, false once it has elapsed,
\* and not true before any copy has resolved; for every successful copy,
\* also one made while the indicator of an earlier copy is still true.
C5_CopiedForDuration ==
  /\ (sinceCopy # <<>> /\ sinceCopy[1] < copiedMs) => copied
  /\ (sinceCopy # <<>> /\ sinceCopy[1] >= copiedMs
        /\ \A i \in 1..Len(timers) : timers[i] > 0) => ~copied
  /\ sinceCopy = <<>> => ~copied

\* C6: text and option updates are accepted while a clipboard write is
\* pending, and the write that completes puts on the clipboard the PNG of the
\* surface the canvas showed when copyToClipboard was called, not of what the
\* canvas shows by then.
C6_WriteUsesCapturedSurface ==
  /\ [](jobs # EmptyBag /\ ~crashed =>
          /\ \A value \in Texts : ENABLED handleTextChange(value)
          /\ \A kvs \in OptionSample : ENABLED updateOption(kvs))
  /\ [][/\ (copyToClipboard /\ canvas # NoCanvas) =>
             \E j \in BagToSet(jobs') :
               /\ jobs' = jobs (+) SetToBag({j})
               /\ j.bitmap = canvas[1]
        /\ \A j \in BagToSet(jobs) :
             (last' = "copyThen" /\ clipboardWriteFulfilled(j)) =>
               written' = <<[type |-> "image/png", image |-> j.bitmap]>>]_vars

\* the clipboard received a surface other than the one on screen
C6_Witness ==
  /\ last = "copyThen"
  /\ written # NoBlob
  /\ canvas # NoCanvas
  /\ written[1].image # canvas[1]
  /\ written[1].image.value # text

\* C7: when the clipboard capability is absent or rejects the write,
\* copyToClipboard reports one error notification, does not change the
\* "copied" indicator, starts no timer, starts no new write and throws nothing.
C7_UnsupportedClipboard ==
  [][\A j \in BagToSet(jobs) :
       (last' = "copyCatch" /\ (clipboardWriteRejected(j) \/ toBlobCallback(j, FALSE))) =>
         /\ toasts' = <<toastError("Copy not supported in this browser")>>
         /\ copied' = copied
         /\ timers' = timers
         /\ jobs' = jobs (-) SetToBag({j})
         /\ written' = NoBlob
         /\ ~thrown']_vars

C7_Witness ==
  /\ last = "copyCatch"
  /\ ~copied
  /\ timers = <<>>
  /\ jobs = EmptyBag
  /\ canvas # NoCanvas

\* C8: a surface is shown if and only if the text is non-empty, and the
\* surface shown is the one built from the current text and options.
C8_SurfaceIffText ==
  /\ (canvas # NoCanvas) <=> (text # "")
  /\ canvas # NoCanvas =>
       canvas[1] = QRCodeCanvas(text, options.size, options.level, options.bgColor,
                                options.fgColor, options.includeMargin)

\* C9: when the text cannot be encoded at the requested level, the failure is
\* reported as an error notification and the application keeps running.
C9_EncodingFailureSurfaced ==
  (text # "" /\ ~canEncode(text, options.level)) =>
    /\ ~crashed
    /\ \E i \in 1..Len(toasts) : toasts[i].kind = "error"

\* C10: through the controls, presets and reset the size stays within
\* 200..500 and the level is one of L, M, Q, H.
C10_SizeAndLevelInRange ==
  /\ options.size \in 200..500
  /\ options.level \in {"L", "M", "Q", "H"}

\* the slider was asked for a position beyond its track
C10_Witness ==
  /\ last = "updateOption"
  /\ options.size = 500
  /\ options.level = "H"
  /\ options.bgColor = "#ff0000"

====
